---- MODULE Spec2Model ----
(***************************************************************************)
(* PageBuilder: the assembly of one HTML document for a page, as a state   *)
(* machine.  One behaviour is one PageBuilder.build call: the constructor  *)
(* has run (Init), and every action is the code that runs between two      *)
(* awaits of buildDocument.  The renders that buildDocument issues in one  *)
(* Promise.all settle in any order.                                        *)
(*                                                                         *)
(* Several builds in progress (SpecBuilds): JavaScript runs one of them at *)
(* a time and may go from one to another at every await.  The variables    *)
(* doc .. result are the instance that runs; `suspended` holds the other   *)
(* instances, and Switch resumes one of them.                              *)
(*                                                                         *)
(* Representation.  A JavaScript string is a sequence of pieces, so that   *)
(* concatenation, includes() and replace() are computed, not assumed:      *)
(* "/a.css?v=1" is <<"/a.css", "?", "v=1">>.  A JavaScript value is a      *)
(* record tagged by its type.  Markup is a sequence of elements, one per   *)
(* line of the template; Blank is a line holding only white space.         *)
(***************************************************************************)
EXTENDS Naturals, Sequences, FiniteSets, TLC

VARIABLES
  doc,             \* this.doc: the page (fields, collection, locales, urls)
  options,         \* this.options
  pod,             \* this.pod: environment, files, static files
  resourceUrls,    \* this.resourceUrls
  enableInspector, \* this.enableInspector
  html,            \* the template literal of buildDocument, as evaluated so far
  pc,              \* the await buildDocument is suspended at
  tasks,           \* the renders issued by the current Promise.all
  values,          \* the result array of the current Promise.all
  result,          \* what build() settled with: nothing yet, a document, an error
  suspended        \* the PageBuilder instances of the other builds in progress

vars == <<doc, options, pod, resourceUrls, enableInspector, html, pc, tasks,
          values, result, suspended>>

(***************************************************************************)
(* Bounds of the model.                                                    *)
(***************************************************************************)
MaxPartials == 2
MaxLocales == 2
MaxResources == 2
MaxBuilds == 2

(***************************************************************************)
(* JavaScript values.                                                      *)
(***************************************************************************)
Undefined == [type |-> "undefined"]
Null == [type |-> "null"]
Bool(b) == [type |-> "boolean", b |-> b]
Str(s) == [type |-> "string", s |-> s]
UrlObject(path) == [type |-> "Url", path |-> path]
StaticFile(podPath, exists, url, fingerprint) ==
  [type |-> "StaticFile", podPath |-> podPath, exists |-> exists, url |-> url,
   fingerprint |-> fingerprint]
ResourceLoader(href) == [type |-> "ResourceLoader", href |-> href]

Truthy(v) ==
  CASE v.type = "undefined" -> FALSE
    [] v.type = "null" -> FALSE
    [] v.type = "boolean" -> v.b
    [] v.type = "string" -> v.s # <<>>
    [] OTHER -> TRUE

\* v === undefined || v === null
Nullish(v) == v = Undefined \/ v = Null

\* a ?? b
Coalesce(a, b) == IF Nullish(a) THEN b ELSE a

Host == <<"http://localhost">>

\* `${v}`: the string a template literal makes of a value.
Interpolate(v) ==
  CASE v.type = "undefined" -> <<"undefined">>
    [] v.type = "null" -> <<"null">>
    [] v.type = "string" -> v.s
    [] v.type = "Url" -> Host \o v.path
    [] v.type = "boolean" -> IF v.b THEN <<"true">> ELSE <<"false">>
    [] OTHER -> <<"[object Object]">>

\* v?.includes('?')
HasQuery(v) == v.type = "string" /\ \E i \in DOMAIN v.s : v.s[i] = "?"

\* `${url}?fingerprint=${fingerprint}`
WithFingerprint(v, fingerprint) ==
  Str(Interpolate(v) \o <<"?", "fingerprint=", fingerprint>>)

(***************************************************************************)
(* Url.relative(url, this.context.doc) of the amagaki library, for the     *)
(* page /pages/ of the repository's test: a path from the root is          *)
(* rewritten relative to the page, any other string is returned as it is.  *)
(***************************************************************************)
RootPaths ==
  {"/static/css/main.css", "/static/js/main.js", "/static/css/partials/hero.css",
   "/static/js/partials/hero.js", "/static/css/partials/cta.css",
   "/static/js/partials/cta.js", "/_page-builder"}

UrlRelative(url) ==
  IF url.type = "string" /\ url.s # <<>> /\ url.s[1] \in RootPaths
  THEN Str(<<"./..">> \o url.s)
  ELSE url

(***************************************************************************)
(* getHrefFromResource(resource): every call site passes no options.       *)
(***************************************************************************)
\* resource.url?.path
UrlPath(file) == IF file.url.type = "Url" THEN Str(file.url.path) ELSE Undefined

\* if (!href?.includes('?')) href = `${href}?fingerprint=${resource.fingerprint}`
FileHref(href, fingerprint) ==
  IF ~HasQuery(href) THEN WithFingerprint(href, fingerprint) ELSE href

getHrefFromResource(resource) ==
  IF resource.type = "StaticFile"
  THEN FileHref(UrlPath(resource), resource.fingerprint)
  ELSE IF resource.type = "ResourceLoader"
  THEN IF Truthy(resource.href) THEN resource.href ELSE resource
  ELSE resource

(***************************************************************************)
(* getUrl(item, options).  item?.fingerprint and item?.url are defined on  *)
(* a static file only.                                                     *)
(***************************************************************************)
GetUrlOptions(includeDomain, relative) ==
  [includeDomain |-> includeDomain, relative |-> relative]

\* if (item?.url) url = options?.includeDomain ? item.url.toString() : item.url.path
ItemUrl(item, opts) ==
  IF item.type = "StaticFile"
  THEN IF item.url.type # "Url" THEN item
       ELSE IF opts.includeDomain THEN Str(Interpolate(item.url))
       ELSE Str(item.url.path)
  ELSE item

\* if (options?.relative && url) url = Url.relative(url, this.context.doc)
Relative(url, opts) ==
  IF opts.relative THEN (IF Truthy(url) THEN UrlRelative(url) ELSE url) ELSE url

\* A getUrl that appends the fingerprint whether or not the URL has a query.
FingerprintedDespiteQuery(item, url) ==
  IF item.type = "StaticFile" THEN WithFingerprint(url, item.fingerprint) ELSE url

\* fingerprint && !url?.includes('?') ? `${url}?fingerprint=${fingerprint}` : url
Fingerprinted(item, url) ==
  IF item.type = "StaticFile"
  THEN IF ~HasQuery(url) THEN WithFingerprint(url, item.fingerprint) ELSE url
  ELSE url

getUrl(item, opts) == Fingerprinted(item, Relative(ItemUrl(item, opts), opts))

(***************************************************************************)
(* getHtmlLang(locale): String.prototype.replace with a string pattern     *)
(* replaces the first occurrence only.                                     *)
(***************************************************************************)
Matches(s, pat, i) ==
  /\ i + Len(pat) - 1 <= Len(s)
  /\ \A k \in 1..Len(pat) : s[i + k - 1] = pat[k]

ReplaceFirst(s, pat, rep) ==
  IF \E i \in 1..Len(s) : Matches(s, pat, i)
  THEN LET i == CHOOSE j \in 1..Len(s) :
                  /\ Matches(s, pat, j)
                  /\ \A k \in 1..(j - 1) : ~Matches(s, pat, k)
       IN  SubSeq(s, 1, i - 1) \o rep \o SubSeq(s, i + Len(pat), Len(s))
  ELSE s

getHtmlLang(locale) ==
  ReplaceFirst(ReplaceFirst(locale.id, <<"_", "ALL">>, <<>>), <<"_">>, <<"-">>)

(***************************************************************************)
(* Markup.  An element stands for one line of the output.  The field       *)
(* `resource` of a script or stylesheet element is the argument the        *)
(* element was built for; it is not part of the markup.                    *)
(***************************************************************************)
Blank == [tag |-> "blank"]
Tag(name) == [tag |-> name]

\* Array.prototype.join('\n') of strings that are lines of markup: an empty
\* string leaves an empty line.
Line(out) == IF out = <<>> THEN <<Blank>> ELSE out

RECURSIVE JoinLines(_)
JoinLines(outs) ==
  IF outs = <<>> THEN <<>> ELSE Line(Head(outs)) \o JoinLines(Tail(outs))

\* String.prototype.trim() of a block of lines.
RECURSIVE TrimStart(_)
TrimStart(lines) ==
  IF lines # <<>> /\ Head(lines) = Blank THEN TrimStart(Tail(lines)) ELSE lines

RECURSIVE TrimEnd(_)
TrimEnd(lines) ==
  IF lines # <<>> /\ lines[Len(lines)] = Blank
  THEN TrimEnd(SubSeq(lines, 1, Len(lines) - 1))
  ELSE lines

Trim(lines) == TrimEnd(TrimStart(lines))

\* html.replace(/^\s*\n/gm, '')
StripBlankLines(lines) == SelectSeq(lines, LAMBDA e : e # Blank)

\* A registry that remembers the last URL only.
IncludesLast(urls, url) == urls # <<>> /\ urls[Len(urls)] = url

\* this.resourceUrls.includes(url)
Includes(urls, url) == \E i \in DOMAIN urls : urls[i] = url

ScriptElement(url, resource) ==
  [tag |-> "script", url |-> url.s, resource |-> resource]

StyleLinkElement(url, resource) ==
  [tag |-> "link", rel |-> "stylesheet", url |-> url.s, resource |-> resource]

NoUrlError(resource) == [error |-> "Resource has no URL", resource |-> resource]

Emitted(out, urls) == [threw |-> FALSE, out |-> out, urls |-> urls]
Thrown(error, urls) == [threw |-> TRUE, error |-> error, out |-> <<>>, urls |-> urls]

\* A template literal's ${...} or a join's item: what was built so far, then
\* the line (or the empty line) of `next`; a throw ends the evaluation.
Interpolated(acc, next) ==
  IF next.threw THEN next ELSE Emitted(acc.out \o Line(next.out), next.urls)

(***************************************************************************)
(* buildScriptElement(resource) and buildStyleLinkElement(resource) on the *)
(* registry `urls`: what is returned (or thrown) and the registry after.   *)
(***************************************************************************)
Element(kind, url, resource) ==
  IF kind = "script" THEN ScriptElement(url, resource)
  ELSE StyleLinkElement(url, resource)

\* The body the two functions share, from `if (this.resourceUrls.includes(url))`.
Register(kind, resource, urls, url) ==
  IF Includes(urls, url) THEN Emitted(<<>>, urls)
  ELSE IF ~Truthy(url) THEN Thrown(NoUrlError(resource), urls)
  ELSE Emitted(<<Element(kind, url, resource)>>, Append(urls, url))

buildScriptElement(resource, urls) ==
  Register("script", resource, urls,
           getUrl(getHrefFromResource(resource), GetUrlOptions(FALSE, TRUE)))

buildStyleLinkElement(resource, urls) ==
  Register("style", resource, urls,
           getUrl(getHrefFromResource(resource), GetUrlOptions(FALSE, TRUE)))

BuildElement(kind, resource, urls) ==
  IF kind = "script" THEN buildScriptElement(resource, urls)
  ELSE buildStyleLinkElement(resource, urls)

(***************************************************************************)
(* resources.map(r => this.build...Element(r)).join('\n'): the calls run   *)
(* in list order on the one registry; the first throw ends the map.        *)
(***************************************************************************)
RECURSIVE MapBuildFrom(_, _, _)
MapBuildFrom(kind, resources, acc) ==
  IF acc.threw THEN acc
  ELSE IF resources = <<>> THEN acc
  ELSE MapBuildFrom(kind, Tail(resources),
                    Interpolated(acc, BuildElement(kind, Head(resources), acc.urls)))

MapBuild(kind, resources, urls) == MapBuildFrom(kind, resources, Emitted(<<>>, urls))

(***************************************************************************)
(* The page, the pod and the options, as the builder reads them.           *)
(***************************************************************************)
Locale(id) == [id |-> id]

\* this.pod.doc(this.doc.podPath, locale).url
DocUrl(locale) == doc.urls[locale.id]

\* this.doc.url
ThisDocUrl == DocUrl(doc.locale)

\* A lookup with || in place of ??: a falsy page value yields to the collection.
getFieldValueOr(name) ==
  IF Truthy(doc.fields[name]) THEN doc.fields[name]
  ELSE IF Nullish(doc.collection) THEN Undefined
  ELSE doc.collection.fields[name]

\* this.doc.fields[name] ?? this.doc.collection?.fields[name]
getFieldValue(name) ==
  Coalesce(doc.fields[name],
           IF Nullish(doc.collection) THEN Undefined ELSE doc.collection.fields[name])

\* this.pod.staticFile(interpolate(this.pod, pathFormat, {partial: {partial: name}}))
PartialStaticFile(kind, name) == pod.staticFile[<<kind, name>>]

\* this.pod.fileExists(`/views/partials/${partial}.njk`)
ViewExists(partial) == partial \in pod.views

\* this.pod.fileExists(`/content/partials/${partial}.yaml`)
ContentExists(partial) == partial \in pod.contents

\* A rule that leaves the staging environment out.
InspectorEnabledInDevOnly(opts, env) ==
  IF opts.inspector.type = "undefined" \/ opts.inspector.enabled.type = "undefined"
  THEN env.dev
  ELSE opts.inspector.enabled.b

(***************************************************************************)
(* The constructor's rule for this.enableInspector:                        *)
(*   options.inspector?.enabled ?? (env.dev || env.name === 'staging')     *)
(***************************************************************************)
InspectorEnabled(opts, env) ==
  IF opts.inspector.type = "undefined" \/ opts.inspector.enabled.type = "undefined"
  THEN env.dev \/ env.name = "staging"
  ELSE opts.inspector.enabled.b

(***************************************************************************)
(* PageBuilderStaticRouteProvider.urlBase and .files: the inspector's      *)
(* support assets, as the expected output of the test 'PageBuilder dev'    *)
(* shows them.                                                             *)
(***************************************************************************)
InspectorUrlBase == "/_page-builder"
InspectorFiles == <<"page-builder-ui.min.js">>

\* `${PageBuilderStaticRouteProvider.urlBase}/${path}`
InspectorResource(path) == Str(<<InspectorUrlBase, "/", path>>)

InspectorResources ==
  [i \in DOMAIN InspectorFiles |-> InspectorResource(InspectorFiles[i])]

(***************************************************************************)
(* buildHeadMetaElements for a page that sets none of the optional fields  *)
(* (title, description, themeColor, noIndex, siteName, image,              *)
(* twitterSite): each leaves its line empty, and the block is trimmed.     *)
(***************************************************************************)
Meta(key, content) == [tag |-> "meta", key |-> key, content |-> content]

buildHeadMetaElements(locale, url) ==
  Trim(<<Blank, Blank, Blank, Blank,
         Meta("referrer", <<"no-referrer">>),
         Meta("og:type", <<"website">>),
         Blank,
         Meta("og:url", url),
         Blank, Blank, Blank,
         Meta("og:locale", locale),
         Blank, Blank, Blank, Blank,
         Meta("twitter:card", <<"summary_large_image">>)>>)

(***************************************************************************)
(* buildHreflangLinkElements.                                              *)
(***************************************************************************)
CanonicalLink(href) == [tag |-> "link", rel |-> "canonical", href |-> href]
AlternateLink(href, hreflang) ==
  [tag |-> "link", rel |-> "alternate", href |-> href, hreflang |-> hreflang]

\* A filter on the locale of the page rather than on the default locale.
OtherLocalesThanCurrent == SelectSeq(doc.locales, LAMBDA l : l # doc.locale)

\* The locales a link is emitted for: [...this.doc.locales].filter(...)
OtherLocales == SelectSeq(doc.locales, LAMBDA l : l # doc.defaultLocale)

XDefaultLink(defaultUrl) ==
  IF Truthy(defaultUrl)
  THEN <<AlternateLink(Interpolate(defaultUrl), <<"x-default">>)>>
  ELSE <<>>

buildHreflangLinkElements ==
  LET defaultUrl == getUrl(DocUrl(doc.defaultLocale), GetUrlOptions(FALSE, FALSE))
      canonical == IF Truthy(ThisDocUrl)
                   THEN <<CanonicalLink(Interpolate(ThisDocUrl))>> ELSE <<>>
      others == [i \in DOMAIN OtherLocales |->
                   <<AlternateLink(
                       Interpolate(getUrl(DocUrl(OtherLocales[i]),
                                          GetUrlOptions(FALSE, FALSE))),
                       getHtmlLang(OtherLocales[i]))>>]
  IN  Trim(Line(canonical) \o Line(XDefaultLink(defaultUrl))
           \o Line(JoinLines(others)))

(***************************************************************************)
(* Partial descriptors: {partial: 'hero', ...data} or                      *)
(* {partial: {partial: 'hero', absolutePath, includeInspector}, ...data}.  *)
(***************************************************************************)
NamedPartial(name, data) ==
  [partial |-> [type |-> "string", partial |-> name], data |-> data]

ObjectPartial(name, absolutePath, includeInspector, data) ==
  [partial |-> [type |-> "object", partial |-> name, absolutePath |-> absolutePath,
                includeInspector |-> includeInspector],
   data |-> data]

\* typeof partial.partial === 'string' ? partial.partial : partial.partial?.partial
PartialName(partial) == partial.partial.partial

InspectorMarker(name) == [tag |-> "page-module-inspector", partial |-> name]

\* this.enableInspector && partial.partial?.includeInspector !== false
WantsInspector(partial) ==
  IF ~enableInspector THEN FALSE
  ELSE IF partial.partial.type = "object"
  THEN partial.partial.includeInspector # Bool(FALSE)
  ELSE TRUE

(***************************************************************************)
(* buildPartialElement(partial) up to its await: the partial's stylesheet  *)
(* and script go through the registry, then the module opens.  An async    *)
(* function runs to its first await when it is called, so this part runs   *)
(* inside the call.  A throw in it rejects the promise the call returns.   *)
(***************************************************************************)
\* file.exists && partialBuilder.push(this.build...Element(file))
PushAsset(kind, file, acc) ==
  IF acc.threw THEN acc
  ELSE IF file.exists THEN Interpolated(acc, BuildElement(kind, file, acc.urls))
  ELSE acc

PartialAssets(name, urls) ==
  PushAsset("script", PartialStaticFile("js", name),
            PushAsset("style", PartialStaticFile("css", name), Emitted(<<>>, urls)))

PartialTask(partial, assets) ==
  [kind |-> "partial", partial |-> partial,
   builder |-> assets.out \o <<Tag("page-module")>>
               \o (IF WantsInspector(partial)
                   THEN <<InspectorMarker(PartialName(partial))>> ELSE <<>>),
   threw |-> assets.threw, settled |-> FALSE, urls |-> assets.urls]

buildPartialElement(partial, urls) ==
  PartialTask(partial, PartialAssets(PartialName(partial), urls))

\* renderFile(podPath), as issued by buildExtraElements
renderFile(podPath) ==
  [kind |-> "file", podPath |-> podPath, builder |-> <<>>, threw |-> FALSE,
   settled |-> FALSE]

Rendered(by, of) == [tag |-> "rendered", by |-> by, of |-> of]

(***************************************************************************)
(* What a settled render contributes.  engine.render and                   *)
(* engine.renderFromString are functions of the template and the context;  *)
(* a descriptor that is neither a name nor a path renders nothing          *)
(* (html stays undefined and joins as an empty line).                      *)
(***************************************************************************)
Awaits(task) ==
  IF task.kind = "file" THEN TRUE
  ELSE IF task.partial.partial.type = "string" THEN TRUE
  ELSE Truthy(task.partial.partial.absolutePath)

TaskOutput(task) ==
  IF task.kind = "file"
  THEN <<Rendered("renderFile", task.podPath)>>
  ELSE LET p == task.partial
           content ==
             IF p.partial.type = "string" THEN <<Rendered("render", p)>>
             ELSE IF Truthy(p.partial.absolutePath)
             THEN <<Rendered("renderFromString", p)>>
             ELSE <<>>
       IN  task.builder \o Line(content) \o <<Tag("/page-module")>>

\* The templates whose render rejects: a missing view, an unreadable inline
\* template, a template that raises.
Rejects(task) ==
  IF task.threw THEN TRUE
  ELSE IF ~Awaits(task) THEN FALSE
  ELSE (IF task.kind = "file" THEN task.podPath ELSE PartialName(task.partial))
         \in pod.failing

RenderError(task) ==
  [error |-> "render failed",
   of |-> IF task.kind = "file" THEN task.podPath ELSE PartialName(task.partial)]

(***************************************************************************)
(* partials.map(partial => this.buildPartialElement(partial)): the calls   *)
(* are made in list order, each running up to its await on the one         *)
(* registry, before any of the renders settles.                            *)
(***************************************************************************)
Issued(newTasks, urls) == [tasks |-> newTasks, urls |-> urls]

AddTask(acc, task) == Issued(Append(acc.tasks, task), task.urls)

RECURSIVE MapPartialsFrom(_, _)
MapPartialsFrom(partials, acc) ==
  IF partials = <<>> THEN acc
  ELSE MapPartialsFrom(Tail(partials),
                       AddTask(acc, buildPartialElement(Head(partials), acc.urls)))

MapPartials(partials, urls) == MapPartialsFrom(partials, Issued(<<>>, urls))

\* extra.map(podPath => this.renderFile(podPath))
MapFiles(podPaths, urls) ==
  Issued([i \in DOMAIN podPaths |-> renderFile(podPaths[i])], urls)

(***************************************************************************)
(* buildBuiltinPartial(partial): the header or the footer.  The content    *)
(* file's fields are data of the descriptor (no content file names another *)
(* partial).                                                               *)
(***************************************************************************)
buildBuiltinPartial(partial, urls) ==
  IF ViewExists(partial)
  THEN MapPartials(<<NamedPartial(partial,
                       IF ContentExists(partial) THEN "content" ELSE "none")>>, urls)
  ELSE Issued(<<>>, urls)

\* A slot that any falsy field value suppresses.
BuiltinSlotUnlessFalsy(slot, urls) ==
  IF ~Truthy(getFieldValue(slot))
  THEN Issued(<<>>, urls)
  ELSE buildBuiltinPartial(slot, urls)

\* this.getFieldValue(slot) === false ? '' : await this.buildBuiltinPartial(slot)
BuiltinSlot(slot, urls) ==
  IF getFieldValue(slot) = Bool(FALSE)
  THEN Issued(<<>>, urls)
  ELSE buildBuiltinPartial(slot, urls)

(***************************************************************************)
(* The build.                                                              *)
(***************************************************************************)
Array(items) == [type |-> "array", items |-> items]

\* (this.doc.fields.partials ?? this.doc.collection?.fields.partials) ?? []
PartialsList ==
  LET partials == getFieldValue("partials")
  IN  IF Nullish(partials) THEN <<>> ELSE partials.items

Pending == [type |-> "pending"]
Document(lines) == [type |-> "document", html |-> lines]
Failure(error) == [type |-> "error", error |-> error]

Unsettled == <<>>

\* await Promise.all(tasks): the renders are issued, none has settled.
Issue(newTasks) ==
  /\ tasks' = newTasks
  /\ values' = [i \in DOMAIN newTasks |-> Unsettled]

\* A rejected await: the error leaves buildDocument, and build, uncaught.
Fail(error, urls) ==
  /\ pc' = "failed"
  /\ result' = Failure(error)
  /\ resourceUrls' = urls
  /\ UNCHANGED <<html, tasks, values>>

\* A Promise.race in place of Promise.all: one settled render is enough.
AnySettled == tasks = <<>> \/ \E i \in DOMAIN tasks : tasks[i].settled

\* A result array filled in the order the renders settle.
SettleSlotInSettlingOrder(i, vals) ==
  1 + Cardinality({j \in DOMAIN vals : vals[j] # Unsettled})

\* await Promise.all(...): every render has settled, none rejected.
AllSettled == \A i \in DOMAIN tasks : tasks[i].settled

\* Promise.all keeps each value at the index of its promise.
SettleSlot(i, vals) == i

Waiting == {"head.extra", "body.prepend", "header", "partials", "footer", "body.extra"}

(***************************************************************************)
(* A render of the current Promise.all resolves.                           *)
(***************************************************************************)
RenderResolve(i) ==
  /\ pc \in Waiting
  /\ ~tasks[i].settled
  /\ ~Rejects(tasks[i])
  /\ tasks' = [tasks EXCEPT ![i].settled = TRUE]
  /\ values' = [values EXCEPT ![SettleSlot(i, values)] = TaskOutput(tasks[i])]
  /\ UNCHANGED <<doc, options, pod, resourceUrls, enableInspector, html, pc, result,
               suspended>>

\* A rejection caught per render and replaced by an empty line.
RejectedAsEmpty(i) ==
  /\ tasks' = [tasks EXCEPT ![i].settled = TRUE]
  /\ values' = [values EXCEPT ![i] = <<Blank>>]
  /\ UNCHANGED <<resourceUrls, html, pc, result>>

\* The first rejection rejects the Promise.all, whatever else is in flight.
Rejected(i) == Fail(RenderError(tasks[i]), resourceUrls)

(***************************************************************************)
(* A render of the current Promise.all rejects.                            *)
(***************************************************************************)
RenderReject(i) ==
  /\ pc \in Waiting
  /\ ~tasks[i].settled
  /\ Rejects(tasks[i])
  /\ Rejected(i)
  /\ UNCHANGED <<doc, options, pod, enableInspector, suspended>>

\* The template literal goes on: `lines` are appended, the renders of the
\* next await are issued.  A throw while the lines were built fails the build.
Continue(built, issued, nextPc) ==
  IF built.threw THEN Fail(built.error, built.urls)
  ELSE /\ html' = html \o built.out
       /\ resourceUrls' = issued.urls
       /\ Issue(issued.tasks)
       /\ pc' = nextPc
       /\ UNCHANGED result

\* <!DOCTYPE html>, <html lang>, and buildHeadElement down to its icon link.
HeadTop ==
  <<Tag("!DOCTYPE html"),
    [tag |-> "html", lang |-> getHtmlLang(doc.locale)],
    Tag("head"),
    Meta("charset", <<"utf-8">>),
    Meta("viewport", <<"width=device-width, initial-scale=1.0">>)>>
  \o buildHeadMetaElements(doc.locale.id, Interpolate(ThisDocUrl))
  \o Line(buildHreflangLinkElements)
  \o <<Blank>>  \* buildHeadLinkElements: no icon is configured

\* ${options.head?.stylesheets?.map(...).join('\n') ?? ''} and the like
HeadList(kind, resources, acc) ==
  IF acc.threw THEN acc ELSE Interpolated(acc, MapBuild(kind, resources, acc.urls))

HeadThroughScripts(urls) ==
  IF ~Truthy(ThisDocUrl)
  THEN \* (this.doc.url as Url).toString() of undefined
       Thrown([error |-> "TypeError", resource |-> Undefined], urls)
  ELSE HeadList("script", options.head.scripts,
                HeadList("style", options.head.stylesheets, Emitted(HeadTop, urls)))

(***************************************************************************)
(* buildDocument up to the await of head.extra: the <html> tag, then       *)
(* buildHeadElement through the global stylesheets and scripts.            *)
(***************************************************************************)
IssueHeadExtra(built) ==
  Continue(built, MapFiles(options.head.extra, built.urls), "head.extra")

BuildHeadElement ==
  /\ pc = "start"
  /\ IssueHeadExtra(HeadThroughScripts(resourceUrls))
  /\ UNCHANGED <<doc, options, pod, enableInspector, suspended>>

\* ${this.enableInspector ? files.map(path => this.buildScriptElement(...)).join('\n') : ''}
InspectorScripts(acc) ==
  IF enableInspector THEN HeadList("script", InspectorResources, acc)
  ELSE Interpolated(acc, Emitted(<<>>, acc.urls))

Closing(acc, lines) ==
  IF acc.threw THEN acc ELSE Emitted(acc.out \o lines, acc.urls)

(***************************************************************************)
(* The rest of buildHeadElement (the inspector's scripts), buildBodyTag    *)
(* (no class is configured), and the issue of body.prepend.                *)
(***************************************************************************)
IssuePrepend(built) ==
  Continue(built, MapFiles(options.body.prepend, built.urls), "body.prepend")

BuildBodyTag ==
  /\ pc = "head.extra"
  /\ AllSettled
  /\ IssuePrepend(Closing(InspectorScripts(Emitted(Line(JoinLines(values)),
                                                   resourceUrls)),
                          <<Tag("/head"), Tag("body")>>))
  /\ UNCHANGED <<doc, options, pod, enableInspector, suspended>>

(***************************************************************************)
(* The main container opens and the header is issued.                      *)
(***************************************************************************)
BuildHeader ==
  /\ pc = "body.prepend"
  /\ AllSettled
  /\ Continue(Emitted(Line(JoinLines(values)) \o <<Tag("div.main")>>, resourceUrls),
              BuiltinSlot("header", resourceUrls), "header")
  /\ UNCHANGED <<doc, options, pod, enableInspector, suspended>>

(***************************************************************************)
(* The header is in; every content partial is issued, in list order.       *)
(***************************************************************************)
BuildPartials ==
  /\ pc = "header"
  /\ AllSettled
  /\ Continue(Emitted(Line(JoinLines(values)), resourceUrls),
              MapPartials(PartialsList, resourceUrls), "partials")
  /\ UNCHANGED <<doc, options, pod, enableInspector, suspended>>

(***************************************************************************)
(* The content partials are joined in the order of the result array; the   *)
(* footer is issued.                                                       *)
(***************************************************************************)
BuildFooter ==
  /\ pc = "partials"
  /\ AllSettled
  /\ Continue(Emitted(Line(JoinLines(values)), resourceUrls),
              BuiltinSlot("footer", resourceUrls), "footer")
  /\ UNCHANGED <<doc, options, pod, enableInspector, suspended>>

(***************************************************************************)
(* The footer is in, the main container closes, body.extra is issued.      *)
(***************************************************************************)
BuildBodyExtra ==
  /\ pc = "footer"
  /\ AllSettled
  /\ Continue(Emitted(Line(JoinLines(values)) \o <<Tag("/div.main")>>, resourceUrls),
              MapFiles(options.body.extra, resourceUrls), "body.extra")
  /\ UNCHANGED <<doc, options, pod, enableInspector, suspended>>

(***************************************************************************)
(* jsBeautify.html(html, {indent_size: 2}): the indentation is not         *)
(* modelled; the empty lines it sets around <head> and <body> are, as the  *)
(* expected output of the repository's tests shows them.                   *)
(***************************************************************************)
RECURSIVE jsBeautify(_)
jsBeautify(lines) ==
  IF lines = <<>> THEN <<>>
  ELSE LET e == Head(lines)
       IN  (IF e \in {Tag("head"), Tag("body"), Tag("/html")}
            THEN <<Blank, e>> ELSE <<e>>) \o jsBeautify(Tail(lines))

(***************************************************************************)
(* The document closes, is trimmed and, unless options.beautify is false,  *)
(* stripped of its empty lines and beautified.                             *)
(***************************************************************************)
Finish ==
  /\ pc = "body.extra"
  /\ AllSettled
  /\ html' = Trim(html \o Line(JoinLines(values)) \o <<Tag("/body"), Tag("/html")>>)
  /\ result' = IF options.beautify = Bool(FALSE)
               THEN Document(html')
               ELSE Document(jsBeautify(StripBlankLines(html')))
  /\ pc' = "done"
  /\ UNCHANGED <<doc, options, pod, resourceUrls, enableInspector, tasks, values,
               suspended>>

(***************************************************************************)
(* PageBuilder.build(doc, context, options), as pod.defaultView calls it   *)
(* for every page: each call makes its own instance.  At an await the      *)
(* running build is suspended and the build of instance k goes on.         *)
(***************************************************************************)
Builder ==
  [doc |-> doc, options |-> options, pod |-> pod, resourceUrls |-> resourceUrls,
   enableInspector |-> enableInspector, html |-> html, pc |-> pc, tasks |-> tasks,
   values |-> values, result |-> result]

\* One registry for every instance, as a static field would be.
SwitchOnSharedRegistry(k) ==
  /\ doc' = suspended[k].doc
  /\ options' = suspended[k].options
  /\ pod' = suspended[k].pod
  /\ resourceUrls' = resourceUrls
  /\ enableInspector' = suspended[k].enableInspector
  /\ html' = suspended[k].html
  /\ pc' = suspended[k].pc
  /\ tasks' = suspended[k].tasks
  /\ values' = suspended[k].values
  /\ result' = suspended[k].result
  /\ suspended' = [suspended EXCEPT ![k] = Builder]

Switch(k) ==
  /\ doc' = suspended[k].doc
  /\ options' = suspended[k].options
  /\ pod' = suspended[k].pod
  /\ resourceUrls' = suspended[k].resourceUrls
  /\ enableInspector' = suspended[k].enableInspector
  /\ html' = suspended[k].html
  /\ pc' = suspended[k].pc
  /\ tasks' = suspended[k].tasks
  /\ values' = suspended[k].values
  /\ result' = suspended[k].result
  /\ suspended' = [suspended EXCEPT ![k] = Builder]

Next ==
  \/ BuildHeadElement
  \/ BuildBodyTag
  \/ BuildHeader
  \/ BuildPartials
  \/ BuildFooter
  \/ BuildBodyExtra
  \/ Finish
  \/ \E i \in DOMAIN tasks : RenderResolve(i)
  \/ \E i \in DOMAIN tasks : RenderReject(i)

(***************************************************************************)
(* The inputs of a build: bounded sets of pages, pods and options.         *)
(***************************************************************************)
SeqsUpTo(S, n) == UNION {[1..k -> S] : k \in 0..n}

Range(f) == {f[i] : i \in DOMAIN f}

\* Static files of the example pod.
MainCss ==
  StaticFile(<<"/src/css/main.css">>, TRUE,
             UrlObject(<<"/static/css/main.css">>), "d41d8c")
MainJs ==
  StaticFile(<<"/src/js/main.js">>, TRUE,
             UrlObject(<<"/static/js/main.js">>), "98f00b")
\* A static file served under a path that carries a query string.
VersionedJs ==
  StaticFile(<<"/src/js/vendor.js">>, TRUE,
             UrlObject(<<"/static/js/main.js", "?", "v=2">>), "e98009")
\* A static file that exists and that no static route maps: it has no URL.
UnmappedCss ==
  StaticFile(<<"/src/css/unmapped.css">>, TRUE, Undefined, "abc123")

AssetUrlPath(kind, name) ==
  CASE kind = "css" /\ name = "hero" -> <<"/static/css/partials/hero.css">>
    [] kind = "js" /\ name = "hero" -> <<"/static/js/partials/hero.js">>
    [] kind = "css" /\ name = "cta" -> <<"/static/css/partials/cta.css">>
    [] OTHER -> <<"/static/js/partials/cta.js">>

\* The static file of a partial: built and mapped, built and not mapped, or
\* not built.
PartialAsset(kind, name, state) ==
  StaticFile(<<"/dist/", kind, "/partials/", name>>, state # "missing",
             IF state = "mapped" THEN UrlObject(AssetUrlPath(kind, name))
             ELSE Undefined,
             "8ecf84")

PartialNames == {"header", "footer", "hero", "cta"}
AssetKeys == {"css", "js"} \X PartialNames

\* The example pod: hero has a stylesheet and a script, cta a stylesheet.
ExampleAssets ==
  [key \in AssetKeys |->
     PartialAsset(key[1], key[2],
                  IF key \in {<<"css", "hero">>, <<"js", "hero">>, <<"css", "cta">>}
                  THEN "mapped" ELSE "missing")]

Env(dev, name) == [dev |-> dev, name |-> name]

Pod(env, views, failing, staticFile) ==
  [env |-> env, views |-> views, contents |-> {"header"}, failing |-> failing,
   staticFile |-> staticFile]

ExamplePod == Pod(Env(FALSE, "prod"), {"header", "footer"}, {}, ExampleAssets)

\* Locales.
En == Locale(<<"en">>)
LocaleUniverse ==
  {En, Locale(<<"de">>), Locale(<<"en", "_", "US">>), Locale(<<"fr", "_", "ALL">>),
   Locale(<<"zh", "_", "Hant", "_", "TW">>)}

PagePath(locale) ==
  IF locale = En THEN <<"/pages/">> ELSE <<"/intl/">> \o locale.id \o <<"/pages/">>

\* The URL of the page in every locale but those of `without`.
Urls(without) ==
  [id \in {l.id : l \in LocaleUniverse} |->
     IF Locale(id) \in without THEN Undefined ELSE UrlObject(PagePath(Locale(id)))]

Fields(header, footer, partials) ==
  [header |-> header, footer |-> footer, partials |-> partials]

NoFields == Fields(Undefined, Undefined, Undefined)

Page(locale, defaultLocale, locales, urls, fields, collectionFields) ==
  [locale |-> locale, defaultLocale |-> defaultLocale, locales |-> locales,
   urls |-> urls, fields |-> fields, collection |-> [fields |-> collectionFields]]

\* The page /pages/ of the example pod, with a list of partials.
ExamplePage(partials) ==
  Page(En, En, <<En>>, Urls({}), Fields(Undefined, Undefined, Array(partials)),
       NoFields)

Options(inspector, beautify, stylesheets, scripts, headExtra, prepend, bodyExtra) ==
  [inspector |-> inspector, beautify |-> beautify,
   head |-> [stylesheets |-> stylesheets, scripts |-> scripts, extra |-> headExtra],
   body |-> [prepend |-> prepend, extra |-> bodyExtra]]

HeadOptions(stylesheets, scripts) ==
  Options(Undefined, Undefined, stylesheets, scripts, <<>>, <<>>, <<>>)

InspectorOptions(enabled) == [type |-> "object", enabled |-> enabled]

Hero(n) == NamedPartial("hero", n)
Cta == NamedPartial("cta", 1)
InlineHero == ObjectPartial("hero", Str(<<"/abs/hero.njk">>), Undefined, 3)
InlineOptOut == ObjectPartial("cta", Str(<<"/abs/cta.njk">>), Bool(FALSE), 4)
InlineOptIn == ObjectPartial("cta", Str(<<"/abs/cta.njk">>), Bool(TRUE), 5)
NoTemplate == ObjectPartial("cta", Undefined, Undefined, 6)

\* The constructor has run.
Constructed ==
  /\ resourceUrls = <<>>
  /\ enableInspector = InspectorEnabled(options, pod.env)
  /\ html = <<>>
  /\ pc = "start"
  /\ tasks = <<>>
  /\ values = <<>>
  /\ result = Pending

(***************************************************************************)
(* Global stylesheets and scripts of every resource form, declared once or *)
(* several times, on pages with no, one or two hero partials.              *)
(***************************************************************************)
HeadResources ==
  {MainCss, ExampleAssets[<<"css", "hero">>], VersionedJs, UnmappedCss,
   Str(<<"https://fonts.googleapis.com/css", "?", "family=Roboto">>),
   Str(<<>>), ResourceLoader(MainCss), ResourceLoader(VersionedJs)}

HeadScripts ==
  {<<>>, <<MainJs>>, <<ResourceLoader(Str(<<"/static/js/partials/hero.js">>))>>,
   <<ExampleAssets[<<"js", "hero">>], MainJs>>}

InitResources ==
  /\ \E stylesheets \in SeqsUpTo(HeadResources, MaxResources), scripts \in HeadScripts :
       options = HeadOptions(stylesheets, scripts)
  /\ doc \in {ExamplePage(partials) :
                partials \in {<<>>, <<Hero(1)>>, <<Hero(1), Hero(2)>>}}
  /\ pod = ExamplePod
  /\ Constructed

(***************************************************************************)
(* Pages of up to MaxPartials partials of every descriptor form, on pods   *)
(* where a template fails to render or a built asset is not mapped.        *)
(***************************************************************************)
Descriptors == {Hero(1), Hero(2), Cta, InlineHero, NoTemplate}

PartialPods ==
  {ExamplePod,
   Pod(Env(FALSE, "prod"), {"header", "footer"}, {"cta"}, ExampleAssets),
   Pod(Env(FALSE, "prod"), {"header", "footer"}, {"hero", "cta"}, ExampleAssets),
   Pod(Env(FALSE, "prod"), {"header"}, {},
       [ExampleAssets EXCEPT ![<<"css", "hero">>] =
                               PartialAsset("css", "hero", "unmapped"),
                             ![<<"js", "cta">>] =
                               PartialAsset("css", "cta", "mapped")])}

InitPartials ==
  /\ doc \in {ExamplePage(partials) : partials \in SeqsUpTo(Descriptors, MaxPartials)}
  /\ options \in {HeadOptions(<<>>, <<>>),
                  HeadOptions(<<ExampleAssets[<<"css", "cta">>]>>,
                              <<ExampleAssets[<<"js", "hero">>]>>)}
  /\ pod \in PartialPods
  /\ Constructed

(***************************************************************************)
(* Pages and collections that set, unset or falsify header and footer, on  *)
(* pods with and without the header and footer views.                      *)
(***************************************************************************)
SlotValues == {Undefined, Null, Bool(FALSE), Str(<<>>)}

\* A page that no collection owns: doc.collection is undefined.
PageOutsideCollection(fields) ==
  [Page(En, En, <<En>>, Urls({}), fields, NoFields) EXCEPT !.collection = Undefined]

InitHeaderFooter ==
  /\ \E ph \in SlotValues, ch \in SlotValues, pf \in SlotValues, cf \in SlotValues,
        inCollection \in BOOLEAN :
       doc \in {Page(En, En, <<En>>, Urls({}),
                     Fields(ph, pf, IF inCollection THEN Undefined
                                    ELSE Array(<<Hero(1)>>)),
                     Fields(ch, cf, IF inCollection THEN Array(<<Cta, Hero(2)>>)
                                    ELSE Undefined)),
                PageOutsideCollection(
                  Fields(ph, pf, IF inCollection THEN Undefined
                                 ELSE Array(<<Hero(1)>>)))}
  /\ options = HeadOptions(<<>>, <<>>)
  /\ \E views \in SUBSET {"header", "footer"}, failing \in {{}, {"header"}, {"footer"}} :
       pod = Pod(Env(FALSE, "prod"), views, failing, ExampleAssets)
  /\ Constructed

(***************************************************************************)
(* Pages in up to MaxLocales locales, in any order, with any default       *)
(* locale, where the page of one locale may have no URL.                   *)
(***************************************************************************)
LocaleLists ==
  {ls \in SeqsUpTo(LocaleUniverse, MaxLocales) :
     /\ ls # <<>>
     /\ \A i, j \in DOMAIN ls : i # j => ls[i] # ls[j]}

InitLocales ==
  /\ \E locales \in LocaleLists, defaultLocale \in LocaleUniverse :
       \E locale \in Range(locales),
          without \in {{}} \cup {{l} : l \in Range(locales) \cup {defaultLocale}} :
         doc = Page(locale, defaultLocale, locales, Urls(without),
                    Fields(Undefined, Undefined, Undefined), NoFields)
  /\ options = HeadOptions(<<>>, <<>>)
  /\ pod = ExamplePod
  /\ Constructed

(***************************************************************************)
(* Every setting of options.inspector and of the environment, on pages     *)
(* whose partials opt in or out of the inspector.                          *)
(***************************************************************************)
InspectorSettings ==
  {Undefined, InspectorOptions(Undefined), InspectorOptions(Bool(TRUE)),
   InspectorOptions(Bool(FALSE))}

InitInspector ==
  /\ \E inspector \in InspectorSettings, scripts \in {<<>>, <<MainJs>>} :
       options = Options(inspector, Undefined, <<>>, scripts, <<>>, <<>>, <<>>)
  /\ doc \in {ExamplePage(partials) :
                partials \in SeqsUpTo({Hero(1), InlineOptOut, InlineOptIn, InlineHero},
                                      MaxPartials)}
  /\ \E dev \in BOOLEAN, name \in {"prod", "staging", "test"} :
       pod = Pod(Env(dev, name), {"header", "footer"}, {}, ExampleAssets)
  /\ Constructed

(***************************************************************************)
(* Extra fragments in the head and the body, with and without              *)
(* beautification, one of them a template that fails.                      *)
(***************************************************************************)
ExtraLists == {<<>>, <<"/views/a.njk">>, <<"/views/a.njk", "/views/b.njk">>}

InitExtras ==
  /\ \E beautify \in {Undefined, Bool(TRUE), Bool(FALSE)},
        headExtra \in ExtraLists, prepend \in ExtraLists, bodyExtra \in ExtraLists :
       options = Options(Undefined, beautify, <<MainCss>>, <<>>, headExtra, prepend,
                         bodyExtra)
  /\ doc = ExamplePage(<<Hero(1), Cta>>)
  /\ pod \in {ExamplePod,
              Pod(Env(TRUE, "test"), {"header", "footer"}, {"/views/b.njk"},
                  ExampleAssets)}
  /\ Constructed

\* One build.
Init ==
  /\ \/ InitResources
     \/ InitPartials
     \/ InitHeaderFooter
     \/ InitLocales
     \/ InitInspector
     \/ InitExtras
  /\ suspended = <<>>

Spec == Init /\ [][Next]_vars

(***************************************************************************)
(* Up to MaxBuilds builds in progress, of pages of one pod under the       *)
(* options the default view was registered with: pages that share the      *)
(* hero partial and the global resources, on a pod where a template may    *)
(* fail.                                                                   *)
(***************************************************************************)
\* new PageBuilder(doc, context, options)
NewBuilder(page, opts, ofPod) ==
  [doc |-> page, options |-> opts, pod |-> ofPod, resourceUrls |-> <<>>,
   enableInspector |-> InspectorEnabled(opts, ofPod.env), html |-> <<>>,
   pc |-> "start", tasks |-> <<>>, values |-> <<>>, result |-> Pending]

BuildsPages ==
  {ExamplePage(<<Hero(1)>>), ExamplePage(<<Cta, Hero(2)>>), ExamplePage(<<>>)}

BuildsOptions ==
  {HeadOptions(<<MainCss>>, <<ExampleAssets[<<"js", "hero">>]>>),
   Options(Undefined, Bool(FALSE), <<ExampleAssets[<<"css", "cta">>], MainCss>>, <<>>,
           <<"/views/a.njk">>, <<>>, <<>>)}

BuildsPods ==
  {ExamplePod, Pod(Env(TRUE, "test"), {"header"}, {"cta"}, ExampleAssets)}

InitBuilds ==
  /\ options \in BuildsOptions
  /\ pod \in BuildsPods
  /\ doc \in BuildsPages
  /\ Constructed
  /\ \E pages \in SeqsUpTo(BuildsPages, MaxBuilds - 1) :
       /\ pages # <<>>
       /\ suspended = [i \in DOMAIN pages |-> NewBuilder(pages[i], options, pod)]

NextBuilds ==
  \/ BuildHeadElement
  \/ BuildBodyTag
  \/ BuildHeader
  \/ BuildPartials
  \/ BuildFooter
  \/ BuildBodyExtra
  \/ Finish
  \/ \E i \in DOMAIN tasks : RenderResolve(i)
  \/ \E i \in DOMAIN tasks : RenderReject(i)
  \/ \E k \in DOMAIN suspended : Switch(k)

SpecBuilds == InitBuilds /\ [][NextBuilds]_vars

(***************************************************************************)
(* Properties of the build.                                                *)
(***************************************************************************)
IsResourceElement(e) ==
  IF e.tag = "script" THEN TRUE
  ELSE IF e.tag = "link" THEN e.rel = "stylesheet"
  ELSE FALSE

\* The places of the script and stylesheet elements of `lines` that load `url`.
ElementsFor(lines, url) ==
  {i \in DOMAIN lines : IF IsResourceElement(lines[i]) THEN lines[i].url = url ELSE FALSE}

\* The same, in the builders of the partials that are being rendered.
ElementsInFlight(url) ==
  UNION {{<<t, i>> : i \in ElementsFor(tasks[t].builder, url)} : t \in DOMAIN tasks}

ResourceUrlsOf(lines) ==
  {lines[i].url : i \in {j \in DOMAIN lines : IsResourceElement(lines[j])}}

IsDocument == result.type = "document"

\* What the owning collection holds for `name`; nothing when no collection
\* owns the page.
CollectionValue(name) ==
  IF doc.collection = Undefined THEN Undefined ELSE doc.collection.fields[name]

\* The header or the footer was built: its field is not false, its view exists.
SlotBuilt(slot) == getFieldValue(slot) # Bool(FALSE) /\ ViewExists(slot)

BuiltPartialNames ==
  {PartialName(PartialsList[i]) : i \in DOMAIN PartialsList}
    \cup {slot \in {"header", "footer"} : SlotBuilt(slot)}

\* Every resource the build declares: the global lists, the inspector's
\* scripts, the built stylesheet and script of every partial on the page.
DeclaredResources ==
  Range(options.head.stylesheets) \cup Range(options.head.scripts)
    \cup (IF enableInspector THEN Range(InspectorResources) ELSE {})
    \cup {file \in {PartialStaticFile(key[1], key[2]) :
                      key \in {"css", "js"} \X BuiltPartialNames} : file.exists}

ResolvedUrl(resource) ==
  getUrl(getHrefFromResource(resource), GetUrlOptions(FALSE, TRUE)).s

(***************************************************************************)
(* C1: a resource URL is registered once and loaded by exactly one         *)
(* element.  While a build runs, every registered URL has exactly one      *)
(* script or stylesheet element in the markup built so far, and no element *)
(* loads an unregistered URL: a later call for a registered URL has        *)
(* returned the empty string.  The built document has exactly one element  *)
(* for the resolved URL of every declared resource, however many times and *)
(* wherever the resource is declared.                                      *)
(***************************************************************************)
C1_OneElementPerUrl ==
  /\ \A i, j \in DOMAIN resourceUrls : resourceUrls[i] = resourceUrls[j] => i = j
  /\ pc # "failed" =>
       /\ \A i \in DOMAIN resourceUrls :
            Cardinality(ElementsFor(html, resourceUrls[i].s))
              + Cardinality(ElementsInFlight(resourceUrls[i].s)) = 1
       /\ \A u \in ResourceUrlsOf(html) : Str(u) \in Range(resourceUrls)
  /\ IsDocument =>
       /\ \A r \in DeclaredResources :
            Cardinality(ElementsFor(result.html, ResolvedUrl(r))) = 1
       /\ \A u \in ResourceUrlsOf(result.html) :
            /\ Cardinality(ElementsFor(result.html, u)) = 1
            /\ u \in {ResolvedUrl(r) : r \in DeclaredResources}

\* A document of a page with two hero partials whose stylesheet is also a
\* global stylesheet: three declarations of one URL.
C1_Witness ==
  /\ IsDocument
  /\ ExampleAssets[<<"css", "hero">>] \in Range(options.head.stylesheets)
  /\ Len(PartialsList) = 2
  /\ \A i \in DOMAIN PartialsList : PartialName(PartialsList[i]) = "hero"
  /\ PartialStaticFile("css", "hero") = ExampleAssets[<<"css", "hero">>]

\* The module blocks of `lines` that the template of the partial `name` filled.
BlocksOf(lines, name) ==
  {i \in DOMAIN lines :
     IF lines[i].tag # "rendered" THEN FALSE
     ELSE IF lines[i].by = "renderFile" THEN FALSE
     ELSE PartialName(lines[i].of) = name}

\* The module blocks of `lines` that a template filled.
FilledBlocks(lines) ==
  {i \in DOMAIN lines :
     IF lines[i].tag # "rendered" THEN FALSE ELSE lines[i].by # "renderFile"}

(***************************************************************************)
(* C2, as the specification states it: a page whose resolved header        *)
(* (footer) field is not exactly false has exactly one header (footer)     *)
(* block in its document, and a page whose field is false has none.        *)
(***************************************************************************)
C2_BlockUnlessFalse ==
  IsDocument =>
    \A slot \in {"header", "footer"} :
      Cardinality(BlocksOf(result.html, slot))
        = IF getFieldValue(slot) = Bool(FALSE) THEN 0 ELSE 1

(***************************************************************************)
(* C2, amended: a page whose resolved header (footer) field is not exactly *)
(* false has exactly one header (footer) block in its document when the    *)
(* pod has the view of that partial, and none when it has not; a page      *)
(* whose field is false has none.  The header block comes first in the     *)
(* main container and the footer block last.                               *)
(***************************************************************************)
C2_BlockUnlessFalseOrNoView ==
  IsDocument =>
    /\ \A slot \in {"header", "footer"} :
         Cardinality(BlocksOf(result.html, slot))
           = IF getFieldValue(slot) = Bool(FALSE) THEN 0
             ELSE IF slot \in pod.views THEN 1
             ELSE 0
    /\ \A h \in BlocksOf(result.html, "header"), i \in FilledBlocks(result.html) :
         h <= i
    /\ \A f \in BlocksOf(result.html, "footer"), i \in FilledBlocks(result.html) :
         i <= f

\* A document of a page whose collection sets header to false and which
\* itself leaves it unset, while its footer field is the empty string.
C2_Witness ==
  /\ IsDocument
  /\ doc.fields.header = Undefined
  /\ CollectionValue("header") = Bool(FALSE)
  /\ getFieldValue("footer") = Str(<<>>)
  /\ "footer" \in pod.views
  /\ BlocksOf(result.html, "header") = {}
  /\ Cardinality(BlocksOf(result.html, "footer")) = 1

\* The templated descriptors of the page's partial list, in list order.
TemplatedPartials ==
  SelectSeq(PartialsList,
            LAMBDA p : IF p.partial.type = "string" THEN TRUE
                       ELSE Truthy(p.partial.absolutePath))

\* What fills the content blocks of `lines`, in document order: every block
\* but those of the header and the footer.
ContentOf(lines) ==
  LET filled == SelectSeq(lines,
                   LAMBDA e : IF e.tag # "rendered" THEN FALSE
                              ELSE IF e.by = "renderFile" THEN FALSE
                              ELSE PartialName(e.of) \notin {"header", "footer"})
  IN  [i \in DOMAIN filled |-> filled[i].of]

ModuleBlocks(lines) == {i \in DOMAIN lines : lines[i] = Tag("page-module")}

(***************************************************************************)
(* C3: the content blocks are in list order, whatever order the renders    *)
(* settle in.  While the renders of the partial list are in flight, the    *)
(* value of the i-th partial is held at place i, whichever settled first.  *)
(* In the document the descriptors that filled the content blocks are      *)
(* p1..pn in list order, there is one module block per partial of the      *)
(* page, and every content block lies after the header block and before    *)
(* the footer block.                                                       *)
(***************************************************************************)
C3_ListOrder ==
  /\ pc = "partials" =>
       /\ Len(values) = Len(PartialsList)
       /\ \A i \in DOMAIN values :
            values[i] # Unsettled =>
              /\ tasks[i].partial = PartialsList[i]
              /\ values[i] = TaskOutput(tasks[i])
  /\ IsDocument =>
       /\ ContentOf(result.html) = TemplatedPartials
       /\ Cardinality(ModuleBlocks(result.html))
            = Len(PartialsList)
                + Cardinality({slot \in {"header", "footer"} : SlotBuilt(slot)})
       /\ \A i \in FilledBlocks(result.html) :
            /\ \A h \in BlocksOf(result.html, "header") : h <= i
            /\ \A f \in BlocksOf(result.html, "footer") : i <= f

\* The render of the second of two different partials has settled while
\* the render of the first is still in flight.
C3_Witness ==
  /\ pc = "partials"
  /\ Len(PartialsList) = 2
  /\ PartialsList[1] # PartialsList[2]
  /\ ~tasks[1].settled
  /\ tasks[2].settled
  /\ values[2] = TaskOutput(tasks[2])
  /\ values[1] = Unsettled

\* A resource of which no URL can be derived: an asset that no static route
\* maps, an empty string, a load-options record around either.
HasNoUrl(resource) ==
  LET bare == IF resource.type = "ResourceLoader" THEN resource.href ELSE resource
  IN  IF bare.type = "StaticFile" THEN bare.url = Undefined
      ELSE IF bare.type = "string" THEN bare.s = <<>>
      ELSE TRUE

HeadDeclared == Range(options.head.stylesheets) \cup Range(options.head.scripts)

(***************************************************************************)
(* C4: a declared script or stylesheet of which no URL can be derived      *)
(* fails the build.  Once the head lists are built, a page that declares   *)
(* such a resource there has failed with the error naming a resource       *)
(* without URL; no document is ever returned for a build that declares     *)
(* one, in the head or as the asset of a partial; no element is emitted    *)
(* for one and its registry entry is never made.                           *)
(***************************************************************************)
C4_NoUrlFails ==
  /\ (pc # "start" /\ \E r \in HeadDeclared : HasNoUrl(r)) =>
       /\ result.type = "error"
       /\ \E r \in HeadDeclared : HasNoUrl(r) /\ result.error = NoUrlError(r)
  /\ IsDocument => \A r \in DeclaredResources : ~HasNoUrl(r)
  /\ \A i \in DOMAIN html :
       IF IsResourceElement(html[i]) THEN ~HasNoUrl(html[i].resource) ELSE TRUE
  /\ \A r \in DeclaredResources :
       HasNoUrl(r) => Interpolate(getHrefFromResource(r)) \notin Range(resourceUrls)

\* The templates the build renders: the views of the header and the footer
\* when they are built, the views and inline templates of the partial list,
\* the extra fragments of the head and the body.
RenderedTemplates ==
  {PartialName(TemplatedPartials[i]) : i \in DOMAIN TemplatedPartials}
    \cup {slot \in {"header", "footer"} : SlotBuilt(slot)}
    \cup Range(options.head.extra) \cup Range(options.body.prepend)
    \cup Range(options.body.extra)

(***************************************************************************)
(* C5: a failed render fails the build.  A document is returned only when  *)
(* none of the templates the build renders fails, and it then holds the    *)
(* block of every templated partial; a build that has failed has returned  *)
(* the error and no document; the error of a failed render is the error of *)
(* one of the failing templates; no render that fails settles as a value.  *)
(***************************************************************************)
C5_FailFast ==
  /\ IsDocument =>
       /\ RenderedTemplates \cap pod.failing = {}
       /\ ContentOf(result.html) = TemplatedPartials
       /\ \A slot \in {"header", "footer"} :
            SlotBuilt(slot) => Cardinality(BlocksOf(result.html, slot)) = 1
  /\ pc = "failed" <=> result.type = "error"
  /\ pc = "done" <=> result.type = "document"
  /\ (result.type = "error" /\ result.error.error = "render failed") =>
       result.error.of \in RenderedTemplates \cap pod.failing
  /\ \A i \in DOMAIN tasks :
       (pc \in Waiting /\ tasks[i].settled) => ~Rejects(tasks[i])

\* The build of a page with two partials has failed with the error of one
\* partial's render after the render of the other had succeeded.
C5_Witness ==
  /\ pc = "failed"
  /\ result.error.error = "render failed"
  /\ Len(PartialsList) = 2
  /\ Len(tasks) = 2
  /\ \E i, j \in DOMAIN tasks :
       /\ tasks[i].settled
       /\ values[i] = TaskOutput(tasks[i])
       /\ ~tasks[j].settled
       /\ tasks[j].kind = "partial"
       /\ result.error = RenderError(tasks[j])

(***************************************************************************)
(* The document of a build that renders one thing at a time: every extra   *)
(* fragment and every partial is built and rendered to its end before the  *)
(* next one is begun, in the order of the template literal and of the      *)
(* lists.                                                                  *)
(***************************************************************************)
InTurn(acc, task) == Emitted(acc.out \o Line(TaskOutput(task)), task.urls)

RECURSIVE PartialsInTurn(_, _)
PartialsInTurn(partials, acc) ==
  IF partials = <<>> THEN acc
  ELSE PartialsInTurn(Tail(partials),
                      InTurn(acc, buildPartialElement(Head(partials), acc.urls)))

\* One ${...} of partials: its lines, or the empty line of an empty join.
PartialsSlot(acc, partials) ==
  Interpolated(acc, PartialsInTurn(partials, Emitted(<<>>, acc.urls)))

FilesSlot(acc, podPaths) ==
  Emitted(acc.out
            \o Line(JoinLines([i \in DOMAIN podPaths |->
                                 <<Rendered("renderFile", podPaths[i])>>])),
          acc.urls)

BuiltinInTurn(acc, slot) ==
  PartialsSlot(acc, IF SlotBuilt(slot)
                    THEN <<NamedPartial(slot, IF ContentExists(slot) THEN "content"
                                              ELSE "none")>>
                    ELSE <<>>)

HeadInTurn ==
  Closing(InspectorScripts(FilesSlot(HeadThroughScripts(<<>>), options.head.extra)),
          <<Tag("/head"), Tag("body")>>)

MainInTurn ==
  Closing(BuiltinInTurn(PartialsSlot(BuiltinInTurn(
            Closing(FilesSlot(HeadInTurn, options.body.prepend), <<Tag("div.main")>>),
            "header"), PartialsList), "footer"),
          <<Tag("/div.main")>>)

BodyInTurn ==
  Trim(Closing(FilesSlot(MainInTurn, options.body.extra),
               <<Tag("/body"), Tag("/html")>>).out)

DocumentInTurn ==
  IF options.beautify = Bool(FALSE) THEN BodyInTurn
  ELSE jsBeautify(StripBlankLines(BodyInTurn))

(***************************************************************************)
(* C6: the document is a function of the page, the options and the pod.    *)
(* Whatever order the concurrently issued renders settled in, a returned   *)
(* document is the document of the build that renders one thing at a time, *)
(* and the registry is the registry of that build: the one element of a    *)
(* resource that several partials share is where the first partial of the  *)
(* list that declares it puts it.                                          *)
(***************************************************************************)
C6_OneDocument ==
  IsDocument =>
    /\ result.html = DocumentInTurn
    /\ resourceUrls = MainInTurn.urls

\* A document of a page with two different hero partials, whose renders
\* could settle in either order: the one element of their shared stylesheet
\* is ahead of both blocks.
C6_Witness ==
  /\ IsDocument
  /\ Len(PartialsList) = 2
  /\ PartialName(PartialsList[1]) = "hero"
  /\ PartialName(PartialsList[2]) = "hero"
  /\ PartialsList[1] # PartialsList[2]
  /\ Cardinality(ElementsFor(result.html, ResolvedUrl(PartialStaticFile("css", "hero")))) = 1
  /\ \A i \in ElementsFor(result.html, ResolvedUrl(PartialStaticFile("css", "hero"))) :
       \A b \in BlocksOf(result.html, "hero") : i < b

\* The asset whose fingerprint a resource carries, if it carries one.
FingerprintedAsset(resource) ==
  IF resource.type = "StaticFile" THEN resource
  ELSE IF resource.type = "ResourceLoader" THEN resource.href
  ELSE Undefined

EndsWith(s, suffix) ==
  IF Len(s) < Len(suffix) THEN FALSE
  ELSE SubSeq(s, Len(s) - Len(suffix) + 1, Len(s)) = suffix

Occurrences(s, piece) == Cardinality({i \in DOMAIN s : s[i] = piece})

\* The emitted URL of an asset with a URL path and a fingerprint.
FingerprintOnce(url, asset) ==
  IF \E i \in DOMAIN asset.url.path : asset.url.path[i] = "?"
  THEN /\ Occurrences(url, "fingerprint=") = 0
       /\ EndsWith(url, asset.url.path)
  ELSE /\ EndsWith(url, <<"?", "fingerprint=", asset.fingerprint>>)
       /\ Occurrences(url, "fingerprint=") = 1
       /\ Occurrences(url, "?") = 1

(***************************************************************************)
(* C7: the fingerprint is appended once, and only to a path without a      *)
(* query string.  Every script or stylesheet element built for an asset    *)
(* (or for a load-options record around an asset) that has a URL path and  *)
(* a fingerprint f has a URL that ends with ?fingerprint=f and holds       *)
(* `fingerprint=` and `?` once each when the path has no query string, and *)
(* a URL that ends with the path and holds no fingerprint when the path    *)
(* has a query string.                                                     *)
(***************************************************************************)
C7_FingerprintOnce ==
  \A i \in DOMAIN html :
    IF ~IsResourceElement(html[i]) THEN TRUE
    ELSE IF FingerprintedAsset(html[i].resource).type # "StaticFile" THEN TRUE
    ELSE IF FingerprintedAsset(html[i].resource).url = Undefined THEN TRUE
    ELSE FingerprintOnce(html[i].url, FingerprintedAsset(html[i].resource))

\* A head that loads main.css through a load-options record and a script
\* whose path carries a query string.
C7_Witness ==
  /\ pc = "head.extra"
  /\ \E i, j \in DOMAIN html :
       /\ html[i] = StyleLinkElement(
                      Str(<<"./..", "/static/css/main.css", "?", "fingerprint=", "d41d8c">>),
                      ResourceLoader(MainCss))
       /\ IsResourceElement(html[j])
       /\ html[j].resource \in {VersionedJs, ResourceLoader(VersionedJs)}
       /\ html[j].url = <<"./..", "/static/js/main.js", "?", "v=2">>

\* A locale identifier without its suffix _ALL and with a hyphen for every
\* underscore.
WithoutSuffixAll(id) ==
  IF EndsWith(id, <<"_", "ALL">>) THEN SubSeq(id, 1, Len(id) - 2) ELSE id

Hyphenated(id) == [i \in DOMAIN id |-> IF id[i] = "_" THEN "-" ELSE id[i]]

(***************************************************************************)
(* C8: the lang attribute of the root element is the locale identifier of  *)
(* the page without the suffix _ALL and with its underscores replaced by   *)
(* hyphens.                                                                *)
(***************************************************************************)
C8_HtmlLang ==
  \A i \in DOMAIN html :
    html[i].tag = "html" => html[i].lang = Hyphenated(WithoutSuffixAll(doc.locale.id))

\* The descriptor explicitly opts out of the inspector.
OptsOut(partial) ==
  IF partial.partial.type = "object"
  THEN partial.partial.includeInspector = Bool(FALSE)
  ELSE FALSE

InspectorMarkers(lines) ==
  {i \in DOMAIN lines : lines[i].tag = "page-module-inspector"}

\* The script elements of `lines` that load the inspector-support asset `path`.
InspectorScriptsFor(lines, path) ==
  {i \in DOMAIN lines :
     IF lines[i].tag # "script" THEN FALSE
     ELSE EndsWith(lines[i].url, <<InspectorUrlBase, "/", path>>)}

HeadEnd(lines) == CHOOSE i \in DOMAIN lines : lines[i] = Tag("/head")

(***************************************************************************)
(* C9: the inspector.  It is enabled as options.inspector.enabled says     *)
(* when that is set, and otherwise when the environment is dev or is named *)
(* staging.  In a document built with the inspector enabled, every block   *)
(* that a partial's template filled opens with one marker naming that      *)
(* partial unless the descriptor opts out, in which case it has none;      *)
(* there are as many markers as partials that do not opt out; and the head *)
(* has one script element for each inspector-support asset.  In a document *)
(* built with it disabled there is no marker and no such script.           *)
(***************************************************************************)
C9_Inspector ==
  /\ enableInspector
       = IF options.inspector = Undefined THEN pod.env.dev \/ pod.env.name = "staging"
         ELSE IF options.inspector.enabled = Undefined
         THEN pod.env.dev \/ pod.env.name = "staging"
         ELSE options.inspector.enabled = Bool(TRUE)
  /\ (IsDocument /\ enableInspector) =>
       /\ \A i \in FilledBlocks(result.html) :
            IF OptsOut(result.html[i].of)
            THEN result.html[i - 1] = Tag("page-module")
            ELSE /\ result.html[i - 1] = InspectorMarker(PartialName(result.html[i].of))
                 /\ result.html[i - 2] = Tag("page-module")
       /\ Cardinality(InspectorMarkers(result.html))
            = Cardinality({i \in DOMAIN PartialsList : ~OptsOut(PartialsList[i])})
                + Cardinality({slot \in {"header", "footer"} : SlotBuilt(slot)})
       /\ \A k \in DOMAIN InspectorFiles :
            /\ Cardinality(InspectorScriptsFor(result.html, InspectorFiles[k])) = 1
            /\ \A i \in InspectorScriptsFor(result.html, InspectorFiles[k]) :
                 i < HeadEnd(result.html)
  /\ (IsDocument /\ ~enableInspector) =>
       /\ InspectorMarkers(result.html) = {}
       /\ \A k \in DOMAIN InspectorFiles :
            InspectorScriptsFor(result.html, InspectorFiles[k]) = {}

\* A document built on staging with no inspector option, of a page with a
\* partial that opts out and a partial that does not.
C9_Witness ==
  /\ IsDocument
  /\ options.inspector = Undefined
  /\ ~pod.env.dev
  /\ pod.env.name = "staging"
  /\ enableInspector
  /\ PartialsList = <<InlineOptOut, Hero(1)>>
  /\ Cardinality(InspectorMarkers(result.html)) = 3

\* The alternate links of `lines`, in document order.
AlternateLinks(lines) ==
  SelectSeq(lines, LAMBDA e : IF e.tag # "link" THEN FALSE ELSE e.rel = "alternate")

XDefaultLinks(lines) ==
  SelectSeq(AlternateLinks(lines), LAMBDA e : e.hreflang = <<"x-default">>)

LocaleLinks(lines) ==
  SelectSeq(AlternateLinks(lines), LAMBDA e : e.hreflang # <<"x-default">>)

\* The links the page's locales other than the default call for, in the
\* order of the page's locales.
ExpectedLocaleLinks ==
  LET others == SelectSeq(doc.locales, LAMBDA l : l # doc.defaultLocale)
  IN  [i \in DOMAIN others |->
         AlternateLink(Interpolate(DocUrl(others[i])), getHtmlLang(others[i]))]

(***************************************************************************)
(* C10, as the specification states it: the head has one alternate link    *)
(* for each locale of the page other than the default, in the order of the *)
(* page's locales, none for the default locale's own identifier, and       *)
(* exactly one x-default link.                                             *)
(***************************************************************************)
C10_OneXDefault ==
  IsDocument =>
    /\ LocaleLinks(result.html) = ExpectedLocaleLinks
    /\ \A i \in DOMAIN LocaleLinks(result.html) :
         LocaleLinks(result.html)[i].hreflang # getHtmlLang(doc.defaultLocale)
    /\ Len(XDefaultLinks(result.html)) = 1

(***************************************************************************)
(* C10, amended: the head has one alternate link for each locale of the    *)
(* page other than the default, in the order of the page's locales, none   *)
(* for the default locale's own identifier, and an x-default link to the   *)
(* page of the default locale exactly when that page has a URL: one link   *)
(* then, none otherwise.                                                   *)
(***************************************************************************)
C10_XDefaultWhenUrl ==
  IsDocument =>
    /\ LocaleLinks(result.html) = ExpectedLocaleLinks
    /\ \A i \in DOMAIN LocaleLinks(result.html) :
         LocaleLinks(result.html)[i].hreflang # getHtmlLang(doc.defaultLocale)
    /\ XDefaultLinks(result.html)
         = IF DocUrl(doc.defaultLocale) = Undefined THEN <<>>
           ELSE <<AlternateLink(Host \o DocUrl(doc.defaultLocale).path, <<"x-default">>)>>
    /\ \A i \in DOMAIN result.html :
         (result.html[i] \in Range(AlternateLinks(result.html))) => i < HeadEnd(result.html)

\* A document of a page in two locales, built for the locale that is not
\* the default, whose default-locale page has no URL.
C10_Witness ==
  /\ IsDocument
  /\ Len(doc.locales) = 2
  /\ doc.defaultLocale \in Range(doc.locales)
  /\ doc.locale # doc.defaultLocale
  /\ doc.locales[2] = doc.defaultLocale
  /\ DocUrl(doc.defaultLocale) = Undefined
  /\ Len(LocaleLinks(result.html)) = 1
  /\ XDefaultLinks(result.html) = <<>>

FieldNames == {"header", "footer", "partials"}

(***************************************************************************)
(* C11: getFieldValue(name) is the page's own value when the page defines  *)
(* name, otherwise the collection's value when the collection defines it,  *)
(* otherwise nothing, also for a page that no collection owns.  A mapping  *)
(* defines a name when it holds a value for it that is neither undefined   *)
(* nor null.  A page's own false is returned as false, whatever the        *)
(* collection holds, and so suppresses the header or the footer of the     *)
(* document.                                                               *)
(***************************************************************************)
C11_FieldFallback ==
  /\ \A name \in FieldNames :
       /\ IF doc.fields[name] \notin {Undefined, Null}
          THEN getFieldValue(name) = doc.fields[name]
          ELSE IF CollectionValue(name) \notin {Undefined, Null}
          THEN getFieldValue(name) = CollectionValue(name)
          ELSE getFieldValue(name) \in {Undefined, Null}
       /\ doc.fields[name] = Bool(FALSE) => getFieldValue(name) = Bool(FALSE)
  /\ IsDocument =>
       \A slot \in {"header", "footer"} :
         doc.fields[slot] = Bool(FALSE) => BlocksOf(result.html, slot) = {}

\* A document of a page that sets header to false in a collection that
\* sets it to a string, and that leaves footer to its collection, which
\* sets it to false: neither block is in the document.
C11_Witness ==
  /\ IsDocument
  /\ doc.fields.header = Bool(FALSE)
  /\ CollectionValue("header") = Str(<<>>)
  /\ doc.fields.footer = Undefined
  /\ CollectionValue("footer") = Bool(FALSE)
  /\ pod.views = {"header", "footer"}
  /\ getFieldValue("header") = Bool(FALSE)
  /\ getFieldValue("footer") = Bool(FALSE)
  /\ BlocksOf(result.html, "header") = {}
  /\ BlocksOf(result.html, "footer") = {}

\* The markup of the running build: its template literal so far and the
\* builders of the renders it has in flight.
OwnElements(url) ==
  Cardinality(ElementsFor(html, url)) + Cardinality(ElementsInFlight(url))

(***************************************************************************)
(* C12: every build has its own registry.  With several builds in          *)
(* progress, interleaved at their awaits in every way, the registry of the *)
(* running build is empty before its first step, holds exactly the URLs of *)
(* the elements in that build's own markup, one element each, and at the   *)
(* end is the registry of that build run alone; the document it returns is *)
(* the document of that build run alone.  The same holds of every          *)
(* suspended build, which is the running build of another state; a build   *)
(* that has not begun has an empty registry whatever the others emitted.   *)
(***************************************************************************)
C12_OwnRegistry ==
  /\ pc = "start" => resourceUrls = <<>>
  /\ \A k \in DOMAIN suspended :
       suspended[k].pc = "start" => suspended[k].resourceUrls = <<>>
  /\ pc # "failed" =>
       /\ \A i \in DOMAIN resourceUrls : OwnElements(resourceUrls[i].s) = 1
       /\ \A u \in ResourceUrlsOf(html) : Str(u) \in Range(resourceUrls)
  /\ IsDocument =>
       /\ result.html = DocumentInTurn
       /\ resourceUrls = MainInTurn.urls
       /\ \A r \in DeclaredResources :
            Cardinality(ElementsFor(result.html, ResolvedUrl(r))) = 1

\* Two builds are in progress on pages that declare the same resources: the
\* running one has issued its partials, the suspended one is past its head,
\* and each has registered the URL of the global stylesheet main.css and
\* has its own element for it.
C12_Witness ==
  /\ pc = "partials"
  /\ \E k \in DOMAIN suspended :
       /\ suspended[k].pc \in {"head.extra", "body.prepend", "header"}
       /\ suspended[k].doc # doc
       /\ Str(ResolvedUrl(MainCss)) \in Range(suspended[k].resourceUrls)
       /\ ElementsFor(suspended[k].html, ResolvedUrl(MainCss)) # {}
  /\ Str(ResolvedUrl(MainCss)) \in Range(resourceUrls)
  /\ ElementsFor(html, ResolvedUrl(MainCss)) # {}

(***************************************************************************)
(* C13: the returned document has no empty or whitespace-only line,        *)
(* whether options.beautify is false or not, and with beautify false it is *)
(* the trimmed markup with its empty lines stripped: only the reformatting *)
(* is skipped.                                                             *)
(***************************************************************************)
C13_NoEmptyLine ==
  IsDocument =>
    /\ \A i \in DOMAIN result.html : result.html[i] # Blank
    /\ options.beautify = Bool(FALSE) => result.html = StripBlankLines(html)

\* The canonical links of `lines`, in document order.
CanonicalLinks(lines) ==
  SelectSeq(lines, LAMBDA e : IF e.tag # "link" THEN FALSE ELSE e.rel = "canonical")

(***************************************************************************)
(* C14: a page without URL builds all the same.  The build of a page whose *)
(* URL is undefined does not fail for the lack of it, and its document has *)
(* no canonical link; the document of a page with a URL has exactly one    *)
(* canonical link, to that URL.                                            *)
(***************************************************************************)
C14_CanonicalWhenUrl ==
  /\ (ThisDocUrl = Undefined /\ result.type = "error") =>
       result.error.error # "TypeError"
  /\ (ThisDocUrl = Undefined /\ pc # "start" /\ pod.failing = {}
        /\ \A r \in HeadDeclared : ~HasNoUrl(r)) => pc # "failed"
  /\ IsDocument =>
       CanonicalLinks(result.html)
         = IF ThisDocUrl = Undefined THEN <<>>
           ELSE <<CanonicalLink(Host \o ThisDocUrl.path)>>

====
